---- MODULE Spec2Model ----
(***************************************************************************)
(* Presence-and-push relay of src/websocket-server/websocket-server.js:    *)
(* a WebSocket listener that admits "teacher" connections into the         *)
(* registry `clients`, and an HTTP listener with /push, /health and        *)
(* /online-teachers that read it.                                          *)
(*                                                                         *)
(* Every callback of the program runs to completion on the single event    *)
(* loop, so each callback is one action.  The transport (the ws library)   *)
(* and the HTTP framing are the environment: which handshake arrives,      *)
(* whether a send() call throws, when a transport closes or errors.        *)
(*                                                                         *)
(* The human-readable texts of the source are non-ASCII string literals;   *)
(* they are written here as ASCII stand-ins, one distinct text per         *)
(* literal of the source.                                                  *)
(***************************************************************************)
EXTENDS Integers, Sequences, FiniteSets, TLC

(***************************************************************************)
(* Bounds of the model.                                                    *)
(***************************************************************************)
MaxConns == 2       \* handles the transport hands to the server
MaxSent == 2        \* frames the server may put on one handle
ScenarioConns == 3  \* handles of the admissions-and-closes scenario

Conns == 1..MaxConns

ScenarioHandles == 1..ScenarioConns

Handles == Conns \cup ScenarioHandles

(***************************************************************************)
(* JavaScript values.  A value is a record of one shape so that any two    *)
(* values can be compared: tag, a number n, a string s and, for objects    *)
(* and arrays, the sequence o of <<key, value>> members in property order. *)
(***************************************************************************)
JV(tag, n, s, o) == [tag |-> tag, n |-> n, s |-> s, o |-> o]

Undefined == JV("undefined", 0, "", <<>>)

JNull == JV("null", 0, "", <<>>)

JBool(b) == JV("bool", IF b THEN 1 ELSE 0, "", <<>>)

JNum(n) == JV("num", n, "", <<>>)

JStr(s) == JV("str", 0, s, <<>>)

JObj(members) == JV("obj", 0, "", members)

JArr(elems) == JV("arr", 0, "", [i \in 1..Len(elems) |-> <<ToString(i - 1), elems[i]>>])

\* ToBoolean, as applied by the `!` operator
Truthy(v) ==
  CASE v.tag = "undefined" -> FALSE
    [] v.tag = "null" -> FALSE
    [] v.tag = "bool" -> v.n = 1
    [] v.tag = "num" -> v.n # 0
    [] v.tag = "str" -> v.s # ""
    [] OTHER -> TRUE

\* property read v.key of an object; undefined when the key is not there
RECURSIVE Lookup(_, _)
Lookup(members, key) ==
  IF members = <<>> THEN Undefined
  ELSE IF members[1][1] = key THEN members[1][2]
  ELSE Lookup(Tail(members), key)

Field(v, key) == Lookup(v.o, key)

RECURSIVE JSONstringify(_)
RECURSIVE StringifyMembers(_, _)
\* the members of an object (keyed = TRUE) or the elements of an array,
\* comma separated
StringifyMembers(members, keyed) ==
  IF members = <<>> THEN ""
  ELSE (IF keyed THEN "\"" \o members[1][1] \o "\":" ELSE "")
       \o JSONstringify(members[1][2])
       \o (IF Len(members) > 1 THEN "," ELSE "")
       \o StringifyMembers(Tail(members), keyed)

\* JSON.stringify of a value that came out of a JSON body or an object
\* literal of the source (no undefined, no cycles)
JSONstringify(v) ==
  CASE v.tag = "null" -> "null"
    [] v.tag = "bool" -> (IF v.n = 1 THEN "true" ELSE "false")
    [] v.tag = "num" -> ToString(v.n)
    [] v.tag = "str" -> "\"" \o v.s \o "\""
    [] v.tag = "obj" -> "{" \o StringifyMembers(v.o, TRUE) \o "}"
    [] v.tag = "arr" -> "[" \o StringifyMembers(v.o, FALSE) \o "]"

(***************************************************************************)
(* Optional strings: what URLSearchParams.get returns (null or a string)   *)
(* and what a destructured body field of string type is (undefined or a    *)
(* string).  <<>> is the absent value, <<s>> the string s.                 *)
(***************************************************************************)
Absent == <<>>

Some(s) == <<s>>

\* `!x` for an optional string: null, undefined and "" are falsy
Falsy(x) == x = Absent \/ x[1] = ""

(***************************************************************************)
(* The Map `clients`: a sequence of <<key, value>> entries in insertion    *)
(* order, at most one entry per key.                                       *)
(***************************************************************************)
NoSocket == 0      \* the undefined that clients.get returns for a missing key

MapHas(m, k) == \E i \in 1..Len(m) : m[i][1] = k

\* get that returns the value of the oldest entry, whatever its key
MapGetOldest(m, k) == IF m = <<>> THEN NoSocket ELSE m[1][2]

MapGet(m, k) ==
  IF MapHas(m, k) THEN m[CHOOSE i \in 1..Len(m) : m[i][1] = k][2] ELSE NoSocket

\* set that appends without looking for the key
MapSetAlwaysAppend(m, k, v) == Append(m, <<k, v>>)

\* set that leaves an existing entry as it is
MapSetKeepFirst(m, k, v) == IF MapHas(m, k) THEN m ELSE Append(m, <<k, v>>)

MapSet(m, k, v) ==
  IF MapHas(m, k)
    THEN [i \in 1..Len(m) |-> IF m[i][1] = k THEN <<k, v>> ELSE m[i]]
    ELSE Append(m, <<k, v>>)

\* delete that empties the map
MapDeleteClear(m, k) == <<>>

MapDelete(m, k) == SelectSeq(m, LAMBDA e : e[1] # k)

MapSize(m) == Len(m)

MapKeys(m) == [i \in 1..Len(m) |-> m[i][1]]

(***************************************************************************)
(* Inputs the environment can present.                                     *)
(***************************************************************************)
\* req.url of an upgrade request: whether `new URL(req.url, base)` accepts
\* it, and its query as <<name, value>> pairs in order
Url(valid, query) == [valid |-> valid, query |-> query]

Urls ==
  { Url(FALSE, <<>>),
    Url(TRUE, << <<"userId", "t1">> >>),
    Url(TRUE, << <<"role", "teacher">> >>),
    Url(TRUE, << <<"userId", "">>, <<"role", "teacher">> >>),
    Url(TRUE, << <<"userId", "t1">>, <<"role", "student">> >>),
    Url(TRUE, << <<"userId", "t1">>, <<"role", "teacher">> >>),
    Url(TRUE, << <<"role", "teacher">>, <<"userId", "t2">> >>) }

\* URLSearchParams.get: the first value of the name, or null
RECURSIVE SearchParamsGet(_, _)
SearchParamsGet(query, name) ==
  IF query = <<>> THEN Absent
  ELSE IF query[1][1] = name THEN Some(query[1][2])
  ELSE SearchParamsGet(Tail(query), name)

\* the teacherId field of a /push body
TeacherIds == {Absent, Some(""), Some("t1"), Some("t2")}

\* the message field of a /push body
Messages ==
  { Undefined, JNull, JBool(FALSE), JNum(0), JStr(""),
    JStr("hi"), JObj(<< <<"a", JNum(1)>> >>) }

\* raw frames a client can send
ClientFrames == {"{\"type\":\"ping\"}", "{\"type\":\"pong\"}", "null", "ping"}

\* values of new Date().toISOString()
Timestamps == {"2024-01-01T00:00:00.000Z"}

(***************************************************************************)
(* Literals of the source.                                                 *)
(***************************************************************************)
OPEN == "OPEN"          \* WebSocket.OPEN

CLOSING == "CLOSING"    \* WebSocket.CLOSING

CLOSED == "CLOSED"      \* WebSocket.CLOSED

NONE == "NONE"          \* a handle the transport has not created yet

PolicyViolation == 1008

InternalError == 1011

WelcomeFrame ==
  JSONstringify(JObj(<< <<"type", JStr("connected")>>,
                        <<"message", JStr("connect-ok")>> >>))

PongFrame == JSONstringify(JObj(<< <<"type", JStr("pong")>> >>))

MissingParameterBody ==
  JObj(<< <<"success", JBool(FALSE)>>,
          <<"error", JStr("missing teacherId or message")>> >>)

PushOkBody ==
  JObj(<< <<"success", JBool(TRUE)>>, <<"message", JStr("push-ok")>> >>)

DeliveryFailedBody ==
  JObj(<< <<"success", JBool(FALSE)>>, <<"error", JStr("push-failed")>> >>)

TargetNotConnectedBody ==
  JObj(<< <<"success", JBool(FALSE)>>, <<"error", JStr("teacher-offline")>> >>)

\* res.status(code).json(body); res.json(body) alone has status 200
Response(status, body) == [status |-> status, body |-> body]

(***************************************************************************)
(* State.                                                                  *)
(***************************************************************************)
VARIABLES
  clients,      \* the Map teacherId -> ws
  readyState,   \* ws.readyState of every handle
  handlers,     \* whether the message/close/error listeners are attached
  connUserId,   \* the userId captured by the listeners of a handle
  sent,         \* the frames ws.send has put on every handle, in order
  closeCode,    \* the code of the server's ws.close call, 0 if none
  errored,      \* whether the transport has emitted 'error' on the handle
  ev,           \* the callback that ran last and what it did
  vacated,      \* history: the userIds whose admitted handle has had its
                \* close event processed, with no admission of the userId since
  ignored       \* history: the handles on which ws.on('message') has run
                \* without making a send call

vars == <<clients, readyState, handlers, connUserId, sent, closeCode, errored, ev,
          vacated, ignored>>

\* One run of a callback: what it was given and what it did.
\*   op         the callback
\*   conn       the handle of a transport callback, 0 for an HTTP one
\*   url        req.url of a connection callback
\*   teacherId, message   the body fields of a push
\*   frame      the raw frame of a message callback
\*   before     the registry when the callback started
\*   responses  the res.json calls made, in order
\*   sends      the send calls made on handles, in order
\*   accesses   the number of accesses to the registry
\*   escaped    whether an exception left the callback
Event(op, conn, before) ==
  [op |-> op, conn |-> conn, url |-> Url(FALSE, <<>>), teacherId |-> Absent,
   message |-> Undefined, frame |-> "", before |-> before, responses |-> <<>>,
   sends |-> <<>>, accesses |-> 0, escaped |-> FALSE]

Init ==
  /\ clients = <<>>
  /\ readyState = [c \in Handles |-> NONE]
  /\ handlers = [c \in Handles |-> FALSE]
  /\ connUserId = [c \in Handles |-> ""]
  /\ sent = [c \in Handles |-> <<>>]
  /\ closeCode = [c \in Handles |-> 0]
  /\ errored = [c \in Handles |-> FALSE]
  /\ ev = Event("init", 0, <<>>)
  /\ vacated = {}
  /\ ignored = {}

(***************************************************************************)
(* The transport's side of a handle.                                       *)
(***************************************************************************)
\* a ws.send(data) call: [conn, data, threw]
SendCall(c, data, threw) == [conn |-> c, data |-> data, threw |-> threw]

\* the frames on the handles after the send calls of one callback
RECURSIVE AfterSends(_, _)
AfterSends(s, calls) ==
  IF calls = <<>> THEN s
  ELSE AfterSends(
         IF calls[1].threw THEN s
         ELSE [s EXCEPT ![calls[1].conn] = Append(@, calls[1].data)],
         Tail(calls))

\* ws.close that leaves the handle as it was
WsCloseNoop(rs, c) == rs

\* ws.close(code) on an open handle starts the closing handshake
WsClose(rs, c) == [rs EXCEPT ![c] = IF @ = OPEN THEN CLOSING ELSE @]

(***************************************************************************)
(* wss.on('connection'): the handshake gate.                               *)
(***************************************************************************)
\* the test of line 24, without the role comparison
HandshakeRejectedNoRole(userId, role) == Falsy(userId)

\* the test of line 24
HandshakeRejected(userId, role) == Falsy(userId) \/ role # Some("teacher")

\* What the connection callback does with handle c, request url and the
\* registry m, when the welcome send throws or not:
\*   clients  the registry afterwards
\*   sends    the ws.send calls made
\*   accesses the number of accesses to the registry
\*   close    the code given to ws.close, 0 when it is not called
\*   attach   whether the message/close/error listeners get attached
\*   userId   the userId the listeners capture
ConnectionHandler(c, url, m, throws) ==
  LET userId == SearchParamsGet(url.query, "userId")
      role == SearchParamsGet(url.query, "role")
  IN  IF ~url.valid
        THEN \* new URL throws: the catch of line 66
             [clients |-> m, sends |-> <<>>, accesses |-> 0, close |-> InternalError,
              attach |-> FALSE, userId |-> ""]
      ELSE IF HandshakeRejected(userId, role)
        THEN [clients |-> m, sends |-> <<>>, accesses |-> 0, close |-> PolicyViolation,
              attach |-> FALSE, userId |-> ""]
      ELSE IF throws
        THEN \* ws.send throws after clients.set: the catch of line 66
             [clients |-> MapSet(m, userId[1], c),
              sends |-> <<SendCall(c, WelcomeFrame, TRUE)>>, accesses |-> 2,
              close |-> InternalError, attach |-> FALSE, userId |-> ""]
      ELSE [clients |-> MapSet(m, userId[1], c),
            sends |-> <<SendCall(c, WelcomeFrame, FALSE)>>, accesses |-> 2,
            close |-> 0, attach |-> TRUE, userId |-> userId[1]]

\* The transport hands the next handle to the connection callback.
Connection(c, url, throws) ==
  /\ readyState[c] = NONE
  /\ \A d \in 1..(c - 1) : readyState[d] # NONE
  /\ \E out \in {ConnectionHandler(c, url, clients, throws)} :
      LET opened == [readyState EXCEPT ![c] = OPEN]
      IN
      /\ throws => out.sends # <<>>    \* a throw needs a send call to throw
      /\ clients' = out.clients
      /\ sent' = AfterSends(sent, out.sends)
      /\ readyState' = IF out.close # 0 THEN WsClose(opened, c) ELSE opened
      /\ closeCode' = [closeCode EXCEPT ![c] = out.close]
      /\ handlers' = [handlers EXCEPT ![c] = out.attach]
      /\ connUserId' = [connUserId EXCEPT ![c] = out.userId]
      /\ vacated' = IF out.attach THEN vacated \ {out.userId} ELSE vacated
      /\ UNCHANGED ignored
      /\ ev' = [Event("connection", c, clients) EXCEPT !.url = url,
                  !.sends = out.sends, !.accesses = out.accesses]
      /\ UNCHANGED errored

(***************************************************************************)
(* The listeners of an admitted handle.                                    *)
(***************************************************************************)
\* JSON.parse of a client frame: the value whose JSON text the frame is, for
\* the values a client frame of this model can denote; a SyntaxError
\* otherwise
FrameValues ==
  { JNull, JObj(<< <<"type", JStr("ping")>> >>),
    JObj(<< <<"type", JStr("pong")>> >>) }

ParseOk(frame) == \E v \in FrameValues : JSONstringify(v) = frame

JSONparse(frame) == CHOOSE v \in FrameValues : JSONstringify(v) = frame

\* ws.on('message') without the reply of line 48
MessageHandlerSilent(c, frame, throws) == <<>>

\* ws.on('message') that answers every frame
MessageHandlerPongAll(c, frame, throws) == <<SendCall(c, PongFrame, throws)>>

\* the ws.send calls of ws.on('message') for one frame; every exception of
\* the body (JSON.parse, data.type of null, ws.send) ends in the catch of
\* line 50
MessageHandler(c, frame, throws) ==
  IF ~ParseOk(frame) THEN <<>>
  ELSE LET data == JSONparse(frame)
       IN  IF data.tag # "obj" THEN <<>>
           ELSE IF Field(data, "type") = JStr("ping")
             THEN <<SendCall(c, PongFrame, throws)>>
           ELSE <<>>

OnMessage(c, frame, throws) ==
  /\ handlers[c]
  /\ readyState[c] = OPEN
  /\ \E calls \in {MessageHandler(c, frame, throws)} :
      /\ throws => calls # <<>>
      /\ Len(sent[c]) + Len(calls) <= MaxSent
      /\ sent' = AfterSends(sent, calls)
      /\ ev' = [Event("message", c, clients) EXCEPT !.frame = frame, !.sends = calls]
      /\ UNCHANGED <<clients, readyState, handlers, connUserId, closeCode, errored, vacated>>
      /\ ignored' = IF calls = <<>> THEN ignored \cup {c} ELSE ignored

\* ws.on('close') without the delete of line 57
CloseHandlerNoDelete(c, m) == m

\* the registry after ws.on('close') or ws.on('error') of handle c
CloseHandler(c, m) == IF handlers[c] THEN MapDelete(m, connUserId[c]) ELSE m

ErrorHandler(c, m) == MapDelete(m, connUserId[c])

\* The peer starts the closing handshake: the handle leaves OPEN, no
\* listener runs yet.
BeginClose(c) ==
  /\ readyState[c] = OPEN
  /\ readyState' = [readyState EXCEPT ![c] = CLOSING]
  /\ ev' = Event("closing", c, clients)
  /\ UNCHANGED <<clients, handlers, connUserId, sent, closeCode, errored, vacated, ignored>>

\* The transport emits 'error' on an admitted handle; 'close' follows later.
OnError(c) ==
  /\ handlers[c]
  /\ readyState[c] \in {OPEN, CLOSING}
  /\ ~errored[c]
  /\ errored' = [errored EXCEPT ![c] = TRUE]
  /\ readyState' = [readyState EXCEPT ![c] = CLOSING]
  /\ clients' = ErrorHandler(c, clients)
  /\ ev' = [Event("error", c, clients) EXCEPT !.accesses = 1]
  /\ UNCHANGED <<handlers, connUserId, sent, closeCode, vacated, ignored>>

\* The transport closes the handle and emits 'close'.
OnClose(c) ==
  /\ readyState[c] \in {OPEN, CLOSING}
  /\ readyState' = [readyState EXCEPT ![c] = CLOSED]
  /\ clients' = CloseHandler(c, clients)
  /\ vacated' = IF handlers[c] THEN vacated \cup {connUserId[c]} ELSE vacated
  /\ UNCHANGED ignored
  /\ ev' = [Event("close", c, clients) EXCEPT !.accesses = IF handlers[c] THEN 2 ELSE 0]
  /\ UNCHANGED <<handlers, connUserId, sent, closeCode, errored>>

(***************************************************************************)
(* The administrative HTTP interface.                                      *)
(***************************************************************************)
\* the test of line 91
MissingParameter(teacherId, message) == Falsy(teacherId) \/ ~Truthy(message)

\* the test of line 100, without the readyState comparison
SocketReadyNoState(socket, rs) == socket # NoSocket

\* the test of line 100
SocketReady(socket, rs) == socket # NoSocket /\ rs[socket] = OPEN

\* lines 92-95, with the registry looked up before them
PushRejectedAfterLookup ==
  [responses |-> <<Response(400, MissingParameterBody)>>,
   sends |-> <<>>, accesses |-> 1, escaped |-> FALSE]

\* lines 92-95: the answer to a body that fails the test of line 91
PushRejected ==
  [responses |-> <<Response(400, MissingParameterBody)>>,
   sends |-> <<>>, accesses |-> 0, escaped |-> FALSE]

\* lines 101-108, with the return of line 107 left out
PushDeliveryFallsThrough(socket, message, throws) ==
  IF throws
    THEN [responses |-> <<Response(500, DeliveryFailedBody),
                          Response(200, TargetNotConnectedBody)>>,
          sends |-> <<SendCall(socket, JSONstringify(message), TRUE)>>,
          accesses |-> 1, escaped |-> FALSE]
    ELSE [responses |-> <<Response(200, PushOkBody)>>,
          sends |-> <<SendCall(socket, JSONstringify(message), FALSE)>>,
          accesses |-> 1, escaped |-> FALSE]

\* lines 101-108: the send on a ready socket, inside try/catch
PushDelivery(socket, message, throws) ==
  IF throws
    THEN \* the catch of line 105
         [responses |-> <<Response(500, DeliveryFailedBody)>>,
          sends |-> <<SendCall(socket, JSONstringify(message), TRUE)>>,
          accesses |-> 1, escaped |-> FALSE]
    ELSE [responses |-> <<Response(200, PushOkBody)>>,
          sends |-> <<SendCall(socket, JSONstringify(message), FALSE)>>,
          accesses |-> 1, escaped |-> FALSE]

\* lines 111-112, answering with status 404
PushNotConnected404 ==
  [responses |-> <<Response(404, TargetNotConnectedBody)>>,
   sends |-> <<>>, accesses |-> 1, escaped |-> FALSE]

\* lines 111-112: the answer when the socket is missing or not open
PushNotConnected ==
  [responses |-> <<Response(200, TargetNotConnectedBody)>>,
   sends |-> <<>>, accesses |-> 1, escaped |-> FALSE]

\* What app.post('/push') does for a body {teacherId, message} on registry
\* m and ready states rs, when socket.send throws or not
\* (responses, sends, accesses and escaped as in Event)
PushHandler(teacherId, message, m, rs, throws) ==
  IF MissingParameter(teacherId, message) THEN PushRejected
  ELSE LET socket == MapGet(m, teacherId[1])
       IN  IF SocketReady(socket, rs)
             THEN PushDelivery(socket, message, throws)
             ELSE PushNotConnected

Push(teacherId, message, throws) ==
  \E out \in {PushHandler(teacherId, message, clients, readyState, throws)} :
      /\ throws => out.sends # <<>>
      /\ \A i \in 1..Len(out.sends) :
           ~out.sends[i].threw => Len(sent[out.sends[i].conn]) < MaxSent
      /\ sent' = AfterSends(sent, out.sends)
      /\ ev' = [Event("push", 0, clients) EXCEPT !.teacherId = teacherId,
                  !.message = message, !.responses = out.responses,
                  !.sends = out.sends, !.accesses = out.accesses,
                  !.escaped = out.escaped]
      /\ UNCHANGED <<clients, readyState, handlers, connUserId, closeCode, errored, vacated, ignored>>

\* the body of app.get('/health')
HealthBody(m, timestamp) ==
  JObj(<< <<"status", JStr("ok")>>,
          <<"onlineTeachers", JNum(MapSize(m))>>,
          <<"timestamp", JStr(timestamp)>> >>)

Health(timestamp) ==
  /\ ev' = [Event("health", 0, clients) EXCEPT
              !.responses = <<Response(200, HealthBody(clients, timestamp))>>,
              !.accesses = 1]
  /\ UNCHANGED <<clients, readyState, handlers, connUserId, sent, closeCode, errored, vacated, ignored>>

\* the body of app.get('/online-teachers') with an empty teachers array
OnlineTeachersBodyNoTeachers(m) ==
  JObj(<< <<"count", JNum(MapSize(m))>>, <<"teachers", JArr(<<>>)>> >>)

\* the body of app.get('/online-teachers')
OnlineTeachersBody(m) ==
  LET teacherIds == MapKeys(m)
  IN  JObj(<< <<"count", JNum(Len(teacherIds))>>,
              <<"teachers", JArr([i \in 1..Len(teacherIds) |-> JStr(teacherIds[i])])>> >>)

OnlineTeachers ==
  /\ ev' = [Event("online-teachers", 0, clients) EXCEPT
              !.responses = <<Response(200, OnlineTeachersBody(clients))>>,
              !.accesses = 1]
  /\ UNCHANGED <<clients, readyState, handlers, connUserId, sent, closeCode, errored, vacated, ignored>>

(***************************************************************************)
(* The specification.                                                      *)
(***************************************************************************)
Next ==
  \/ \E c \in Conns, url \in Urls, throws \in BOOLEAN : Connection(c, url, throws)
  \/ \E c \in Conns, frame \in ClientFrames, throws \in BOOLEAN : OnMessage(c, frame, throws)
  \/ \E c \in Conns : BeginClose(c)
  \/ \E c \in Conns : OnError(c)
  \/ \E c \in Conns : OnClose(c)
  \/ \E teacherId \in TeacherIds, message \in Messages, throws \in BOOLEAN :
       Push(teacherId, message, throws)
  \/ \E timestamp \in Timestamps : Health(timestamp)
  \/ OnlineTeachers

Spec == Init /\ [][Next]_vars

\* The scenario of admissions, closes and health queries alone, on
\* ScenarioConns handles and three userIds.
ScenarioUrls ==
  { Url(TRUE, << <<"userId", id>>, <<"role", "teacher">> >>) : id \in {"t1", "t2", "t3"} }

NextScenario ==
  \/ \E c \in ScenarioHandles, url \in ScenarioUrls : Connection(c, url, FALSE)
  \/ \E c \in ScenarioHandles : OnClose(c)
  \/ \E timestamp \in Timestamps : Health(timestamp)

SpecScenario == Init /\ [][NextScenario]_vars

TypeOK ==
  /\ \A i \in 1..Len(clients) : clients[i][2] \in Handles
  /\ readyState \in [Handles -> {NONE, OPEN, CLOSING, CLOSED}]
  /\ handlers \in [Handles -> BOOLEAN]
  /\ \A c \in Handles : Len(sent[c]) <= MaxSent

(***************************************************************************)
(* Properties.  They speak of the callback that ran last (ev) and of the   *)
(* state it left.                                                          *)
(***************************************************************************)
\* the userId and role a handshake url carries
UrlUserId(url) == SearchParamsGet(url.query, "userId")

UrlRole(url) == SearchParamsGet(url.query, "role")

\* a valid handshake: the url parses, userId is non-empty, role is "teacher"
ValidHandshake(url) ==
  /\ url.valid
  /\ UrlUserId(url) # Absent /\ UrlUserId(url) # Some("")
  /\ UrlRole(url) = Some("teacher")

\* a handshake whose userId is missing or empty, or whose role is not "teacher"
InvalidHandshake(url) ==
  /\ url.valid
  /\ \/ UrlUserId(url) = Absent
     \/ UrlUserId(url) = Some("")
     \/ UrlRole(url) # Some("teacher")

\* the last callback was a push naming a non-empty teacherId
PushTo == ev.op = "push" /\ ev.teacherId # Absent /\ ev.teacherId # Some("")

\* the handle the registry mapped that teacherId to when the push started
PushTarget == MapGet(ev.before, ev.teacherId[1])

\* the last callback was a push that got as far as the registry lookup
PushLookedUp == PushTo /\ ev.accesses > 0

HasKey(m, k) == \E i \in 1..Len(m) : MapKeys(m)[i] = k

IsValue(m, c) == \E i \in 1..Len(m) : m[i][2] = c

Frames(c) == {sent[c][i] : i \in 1..Len(sent[c])}

\* C1: every push with both fields present, whose teacherId the registry
\* maps to a handle that is OPEN and whose send does not throw, puts exactly
\* one frame, the JSON text of message, on that handle and none on any other
\* handle, and is answered 200 {success:true}.
C1_PushDelivery ==
  ( /\ PushTo
    /\ ev.message # Undefined
    /\ PushTarget # NoSocket
    /\ readyState[PushTarget] = OPEN
    /\ \A i \in 1..Len(ev.sends) : ~ev.sends[i].threw )
  => /\ ev.sends = <<SendCall(PushTarget, JSONstringify(ev.message), FALSE)>>
     /\ ev.responses = <<Response(200, PushOkBody)>>

\* C1, for the bodies that pass the test of line 91: the same delivery holds
\* of every push whose message is truthy.
C1_PushDeliveryTruthy ==
  ( /\ PushTo
    /\ Truthy(ev.message)
    /\ PushTarget # NoSocket
    /\ readyState[PushTarget] = OPEN
    /\ \A i \in 1..Len(ev.sends) : ~ev.sends[i].threw )
  => /\ ev.sends = <<SendCall(PushTarget, JSONstringify(ev.message), FALSE)>>
     /\ ev.responses = <<Response(200, PushOkBody)>>
     /\ sent[PushTarget][Len(sent[PushTarget])] = JSONstringify(ev.message)

\* a push of {"a":1} has been delivered while another handle is open
C1_Witness ==
  /\ PushTo
  /\ ev.message = JObj(<< <<"a", JNum(1)>> >>)
  /\ ev.sends = <<SendCall(PushTarget, "{\"a\":1}", FALSE)>>
  /\ \E c \in Handles : c # PushTarget /\ readyState[c] = OPEN /\ handlers[c]

\* C2 as stated: after every valid handshake the registry is one entry
\* larger than before and its keys contain the userId.
C2_SizeGrowsByOne ==
  (ev.op = "connection" /\ ValidHandshake(ev.url))
  => /\ MapSize(clients) = MapSize(ev.before) + 1
     /\ HasKey(clients, UrlUserId(ev.url)[1])

\* C2 as amended: after every valid handshake the keys of the registry contain
\* the userId; the registry is one entry larger than before when the userId
\* was not a key, and of the same size when it was.
C2_SizeGrowsByOneIfAbsent ==
  (ev.op = "connection" /\ ValidHandshake(ev.url))
  => /\ MapSize(clients) =
          MapSize(ev.before) + (IF HasKey(ev.before, UrlUserId(ev.url)[1]) THEN 0 ELSE 1)
     /\ HasKey(clients, UrlUserId(ev.url)[1])

\* a valid handshake has just been admitted under a userId that was a key
C2_Witness ==
  /\ ev.op = "connection"
  /\ ValidHandshake(ev.url)
  /\ HasKey(ev.before, UrlUserId(ev.url)[1])
  /\ handlers[ev.conn]

\* C3: a handshake whose userId is missing or empty or whose role is not
\* "teacher" leaves the registry as it was and closes the handle with code
\* 1008; a handle closed with 1008 has never been sent the "connected" frame
\* and is never a value of the registry.
C3_RejectedHandshake ==
  /\ (ev.op = "connection" /\ InvalidHandshake(ev.url))
     => /\ clients = ev.before
        /\ closeCode[ev.conn] = PolicyViolation
        /\ readyState[ev.conn] = CLOSING
        /\ ev.sends = <<>>
  /\ \A c \in Handles :
       closeCode[c] = PolicyViolation
       => /\ WelcomeFrame \notin Frames(c)
          /\ ~IsValue(clients, c)
          /\ ~handlers[c]
          /\ readyState[c] \in {CLOSING, CLOSED}

\* a rejected handle, closed since, and a later admission of another handle
C3_Witness ==
  \E c, d \in Handles :
    /\ closeCode[c] = PolicyViolation
    /\ readyState[c] = CLOSED
    /\ c < d
    /\ IsValue(clients, d)

C5_Upsert ==
  /\ \A i, j \in 1..Len(clients) : clients[i][1] = clients[j][1] => i = j
  /\ (ev.op = "connection" /\ ValidHandshake(ev.url))
     => MapGet(clients, UrlUserId(ev.url)[1]) = ev.conn
  /\ \A c \in Handles :
       (handlers[c] /\ HasKey(clients, connUserId[c]))
       => MapGet(clients, connUserId[c]) >= c
  /\ PushTo
     => \A i \in 1..Len(ev.sends) : ev.sends[i].conn = MapGet(clients, ev.teacherId[1])

\* two open handles admitted under one userId, and a push to it delivered on
\* the second
C5_Witness ==
  /\ PushTo
  /\ ev.responses = <<Response(200, PushOkBody)>>
  /\ \E c, d \in Handles :
       /\ c < d
       /\ handlers[c] /\ handlers[d]
       /\ connUserId[c] = ev.teacherId[1] /\ connUserId[d] = ev.teacherId[1]
       /\ readyState[c] = OPEN
       /\ ev.sends[1].conn = d
       /\ Len(sent[c]) = 1

\* the handles a handshake has been run on, and those that have closed
Used == {c \in Handles : readyState[c] # NONE}

Closed == {c \in Handles : readyState[c] = CLOSED}

\* three handshakes, all admitted, and one close event since
ThreeAdmittedOneClosed ==
  /\ Cardinality(Used) = 3
  /\ \A c \in Used : handlers[c]
  /\ Cardinality(Closed) = 1
  /\ \A c \in Used \ Closed : readyState[c] = OPEN

DistinctUserIds == \A c, d \in Used : connUserId[c] = connUserId[d] => c = d

OnlineTeachers2 == Field(ev.responses[1].body, "onlineTeachers") = JNum(2)

\* C6 as stated: a health query after three admissions and one close reports
\* onlineTeachers = 2, whatever the three userIds and whichever handle closed.
C6_HealthAfterThreeAndOne ==
  (ev.op = "health" /\ ThreeAdmittedOneClosed) => OnlineTeachers2

\* C6 as amended: a health query after three admissions under pairwise
\* distinct userIds and one close reports onlineTeachers = 2, whichever
\* handle closed.
C6_HealthAfterThreeDistinctAndOne ==
  (ev.op = "health" /\ ThreeAdmittedOneClosed /\ DistinctUserIds)
  => OnlineTeachers2

\* a health query after three admissions under distinct userIds and the close
\* of the second
C6_Witness ==
  /\ ev.op = "health"
  /\ ThreeAdmittedOneClosed
  /\ DistinctUserIds
  /\ readyState[2] = CLOSED
  /\ OnlineTeachers2

\* C7: a push whose teacherId or message is missing is answered 400
\* MissingParameter, and nothing else: the registry is not accessed and is
\* as before, and no send call is made.
C7_MissingParameter ==
  (ev.op = "push" /\ (ev.teacherId = Absent \/ ev.message = Undefined))
  => /\ ev.responses = <<Response(400, MissingParameterBody)>>
     /\ ev.accesses = 0
     /\ clients = ev.before
     /\ ev.sends = <<>>

\* a push without message to a userId whose handle is registered and open
C7_Witness ==
  /\ PushTo
  /\ ev.message = Undefined
  /\ PushTarget # NoSocket
  /\ readyState[PushTarget] = OPEN

\* C8: a push with both fields present, to a teacherId that is not a key of
\* the registry, is answered 200 TargetNotConnected, makes no send call and
\* leaves the registry as it was.
C8_PushToAbsentId ==
  (PushTo /\ ev.message # Undefined /\ ~HasKey(ev.before, ev.teacherId[1]))
  => /\ ev.responses = <<Response(200, TargetNotConnectedBody)>>
     /\ ev.sends = <<>>
     /\ clients = ev.before

PushThrew == ev.op = "push" /\ \E i \in 1..Len(ev.sends) : ev.sends[i].threw

\* C10: a push whose send call throws (the target registered and OPEN) is
\* answered 500 DeliveryFailed and nothing else; the registry is as before,
\* the target still registered, no frame is put on any handle and no
\* exception leaves the callback.
C10_DeliveryFailed ==
  PushThrew
  => /\ PushTarget # NoSocket /\ readyState[PushTarget] = OPEN
     /\ ev.responses = <<Response(500, DeliveryFailedBody)>>
     /\ clients = ev.before
     /\ MapGet(clients, ev.teacherId[1]) = PushTarget
     /\ ev.sends = <<SendCall(PushTarget, JSONstringify(ev.message), TRUE)>>
     /\ ~ev.escaped

\* a push whose send call threw on an admitted open handle
C10_Witness ==
  /\ PushThrew
  /\ handlers[PushTarget]
  /\ readyState[PushTarget] = OPEN
  /\ Len(ev.responses) = 1

\* the last callback was ws.on('message') given the text {"type":"ping"}
PingFrame == JSONstringify(JObj(<< <<"type", JStr("ping")>> >>))

PingReceived == ev.op = "message" /\ ev.frame = PingFrame

MessageThrew == ev.op = "message" /\ \E i \in 1..Len(ev.sends) : ev.sends[i].threw

\* C11 as stated: every {"type":"ping"} received on an open admitted handle
\* puts exactly one {"type":"pong"} on that handle and no frame on any other,
\* leaves the registry as it was and the handle OPEN.
C11_PingPong ==
  PingReceived
  => /\ ev.sends = <<SendCall(ev.conn, PongFrame, FALSE)>>
     /\ sent[ev.conn][Len(sent[ev.conn])] = PongFrame
     /\ clients = ev.before
     /\ readyState[ev.conn] = OPEN

\* C11 as amended: every {"type":"ping"} received on an open admitted handle
\* makes exactly one send call, of {"type":"pong"} on that handle, leaves the
\* registry as it was and the handle OPEN; the pong is put on the handle when
\* the send call does not throw, and no frame is put on any handle when it
\* throws.
C11_PingPongUnlessThrow ==
  PingReceived
  => /\ Len(ev.sends) = 1
     /\ ev.sends[1].conn = ev.conn
     /\ ev.sends[1].data = PongFrame
     /\ ~ev.sends[1].threw => sent[ev.conn][Len(sent[ev.conn])] = PongFrame
     /\ clients = ev.before
     /\ readyState[ev.conn] = OPEN
     /\ handlers[ev.conn]

\* a ping answered on one admitted open handle while another is open
C11_Witness ==
  /\ PingReceived
  /\ ~MessageThrew
  /\ sent[ev.conn] = <<WelcomeFrame, PongFrame>>
  /\ \E c \in Handles : c # ev.conn /\ readyState[c] = OPEN /\ handlers[c]

\* C12: the first frame the server puts on a handle is the "connected"
\* confirmation: no push payload and no pong is on a handle before it.  Every
\* admitted handle has been sent it, by the one send call of its connection
\* callback, and no later frame of the handle is that text.
C12_ConnectedFirst ==
  /\ \A c \in Handles : sent[c] # <<>> => sent[c][1] = WelcomeFrame
  /\ \A c \in Handles :
       handlers[c]
       => /\ sent[c] # <<>>
          /\ \A i \in 2..Len(sent[c]) : sent[c][i] # WelcomeFrame
  /\ (ev.op = "connection" /\ ValidHandshake(ev.url))
     => /\ Len(ev.sends) = 1
        /\ ev.sends[1].conn = ev.conn
        /\ ev.sends[1].data = WelcomeFrame
        /\ ~ev.sends[1].threw => sent[ev.conn] = <<WelcomeFrame>>
        /\ ev.sends[1].threw => sent[ev.conn] = <<>>
  /\ ev.op \in {"message", "push"}
     => \A i \in 1..Len(ev.sends) :
          ~ev.sends[i].threw => Len(sent[ev.sends[i].conn]) > 1

\* a push delivered as the second frame of an admitted handle, while a handle
\* whose confirmation threw is registered and has no frame
C12_Witness ==
  /\ PushTo
  /\ PushTarget # NoSocket
  /\ ev.responses = <<Response(200, PushOkBody)>>
  /\ sent[PushTarget] = <<WelcomeFrame, JSONstringify(ev.message)>>
  /\ \E c \in Handles :
       /\ closeCode[c] = InternalError
       /\ IsValue(clients, c)
       /\ sent[c] = <<>>

\* the elements of the teachers array of an online-teachers body
ReportedTeachers(body) ==
  LET elems == Field(body, "teachers").o
  IN  {elems[i][2] : i \in 1..Len(elems)}

\* what a step that runs the health or the online-teachers callback does
QueryStep ==
  ev'.op \in {"health", "online-teachers"}
  => /\ UNCHANGED <<clients, readyState, handlers, connUserId, sent, closeCode, errored>>
     /\ ev'.sends = <<>>
     /\ Len(ev'.responses) = 1
     /\ ev'.responses[1].status = 200
     /\ ev'.op = "health"
        => /\ Field(ev'.responses[1].body, "onlineTeachers") = JNum(MapSize(clients))
           /\ Field(ev'.responses[1].body, "status") = JStr("ok")
           /\ Field(ev'.responses[1].body, "timestamp").tag = "str"
     /\ ev'.op = "online-teachers"
        => /\ Field(ev'.responses[1].body, "count") = JNum(MapSize(clients))
           /\ Len(Field(ev'.responses[1].body, "teachers").o) = MapSize(clients)
           /\ ReportedTeachers(ev'.responses[1].body)
                = {JStr(MapKeys(clients)[i]) : i \in 1..MapSize(clients)}

\* C13: in every state the health and the online-teachers query can run, and
\* a step that runs one leaves the registry and every handle as they were,
\* makes no send call and answers 200 once: health with onlineTeachers equal
\* to the size of the registry, online-teachers with the keys of the registry
\* and count equal to that size.
C13_Queries ==
  /\ [](ENABLED OnlineTeachers /\ \A timestamp \in Timestamps : ENABLED Health(timestamp))
  /\ [][QueryStep]_vars

\* an online-teachers query answered with two keys, one of a handle that is
\* closing and has a pong on it
C13_Witness ==
  /\ ev.op = "online-teachers"
  /\ Field(ev.responses[1].body, "count") = JNum(2)
  /\ ReportedTeachers(ev.responses[1].body) = {JStr("t1"), JStr("t2")}
  /\ \E c \in Handles :
       /\ IsValue(clients, c)
       /\ readyState[c] = CLOSING
       /\ sent[c] = <<WelcomeFrame, PongFrame>>

\* the number of clients.delete calls the listeners of handle c have made:
\* one by ws.on('error') once the error event has been processed, one by
\* ws.on('close') once the close event has been processed
DeleteCalls(c) ==
  (IF handlers[c] /\ errored[c] THEN 1 ELSE 0)
  + (IF handlers[c] /\ readyState[c] = CLOSED THEN 1 ELSE 0)

\* C14: every admitted handle that has reached CLOSED, by a close event alone
\* or by an error event and the close event after it, has had clients.delete
\* called for it exactly once.
C14_DeleteOnce ==
  \A c \in Handles :
    (handlers[c] /\ readyState[c] = CLOSED) => DeleteCalls(c) = 1

\* the registry m has the entry <<k, c>>
Registered(m, k, c) == \E i \in 1..Len(m) : m[i] = <<k, c>>

PushSucceeded ==
  ev.op = "push" /\ \E i \in 1..Len(ev.responses) : ev.responses[i].body = PushOkBody

\* C15: whatever admissions, closes, errors, pings and pushes came before, a
\* push answered {success:true} has made exactly one send call, which did not
\* throw, on the handle that the registry mapped its teacherId to when the
\* push started, and that handle was OPEN; every send call of a push is on
\* the handle registered for its teacherId, before the push and after it.
C15_PushOnRegisteredHandle ==
  /\ PushSucceeded
     => /\ ev.teacherId # Absent
        /\ ev.responses = <<Response(200, PushOkBody)>>
        /\ Len(ev.sends) = 1
        /\ ~ev.sends[1].threw
        /\ readyState[ev.sends[1].conn] = OPEN
        /\ sent[ev.sends[1].conn][Len(sent[ev.sends[1].conn])] = ev.sends[1].data
  /\ ev.op = "push"
     => \A i \in 1..Len(ev.sends) :
          /\ ev.teacherId # Absent
          /\ Registered(ev.before, ev.teacherId[1], ev.sends[i].conn)
          /\ Registered(clients, ev.teacherId[1], ev.sends[i].conn)

\* a push delivered to the handle of the second entry of the registry, while
\* the handle of the first entry is closing
C15_Witness ==
  /\ PushSucceeded
  /\ Len(ev.before) = 2
  /\ ev.before[2] = <<ev.teacherId[1], ev.sends[1].conn>>
  /\ readyState[ev.before[1][2]] = CLOSING
  /\ handlers[ev.before[1][2]]

\* C16: once the close event of a handle has been processed (the last event
\* the transport emits for it, so that none is pending), the registry has no
\* entry for the handle; this includes a handle closed with 1011 because the
\* connection callback threw after clients.set.
C16_ClosedHandleNotRegistered ==
  \A c \in Handles : readyState[c] = CLOSED => ~IsValue(clients, c)

\* the last callback was the close or the error listener of an admitted
\* handle whose userId the registry mapped to another handle, admitted later
DisplacedClosed ==
  /\ ev.op \in {"close", "error"}
  /\ handlers[ev.conn]
  /\ MapGet(ev.before, connUserId[ev.conn]) # NoSocket
  /\ MapGet(ev.before, connUserId[ev.conn]) > ev.conn

\* C17: the close or error event of a displaced handle leaves the registry
\* as it was: the userId is still mapped to the handle that displaced it.
C17_DisplacedCloseKeepsEntry ==
  DisplacedClosed
  => /\ clients = ev.before
     /\ MapGet(clients, connUserId[ev.conn]) = MapGet(ev.before, connUserId[ev.conn])

\* the last callback was ws.on('message') given a text that is not JSON, or
\* the JSON text of a value whose type is not "ping"
OtherFrameReceived ==
  /\ ev.op = "message"
  /\ ~ParseOk(ev.frame) \/ Field(JSONparse(ev.frame), "type") # JStr("ping")

\* what C18 says of such a frame: no send call, no exception out of the
\* listener, the handle still OPEN and admitted and not closed by the server,
\* the registry as before
FrameDiscarded ==
  OtherFrameReceived
  => /\ ev.sends = <<>>
     /\ ~ev.escaped
     /\ readyState[ev.conn] = OPEN
     /\ handlers[ev.conn]
     /\ closeCode[ev.conn] = 0
     /\ clients = ev.before
     /\ ev.conn \in ignored

\* the last callback was ws.on('message') given {"type":"ping"} on a handle
\* that has had such a frame before
PingAfterOtherFrame == PingReceived /\ ev.conn \in ignored

\* C18 as stated: a frame that is not JSON or whose type is not "ping" makes
\* no send call and no error, leaves the handle OPEN and the registry as it
\* was; every later {"type":"ping"} on the handle puts a {"type":"pong"} on
\* it.
C18_OtherFrames ==
  /\ FrameDiscarded
  /\ PingAfterOtherFrame
     => /\ ev.sends = <<SendCall(ev.conn, PongFrame, FALSE)>>
        /\ sent[ev.conn][Len(sent[ev.conn])] = PongFrame

\* C18 as amended: the same of the frame itself; every later {"type":"ping"}
\* on the handle makes exactly one send call, of {"type":"pong"} on the
\* handle, which puts the pong on it unless the call throws.
C18_OtherFramesUnlessThrow ==
  /\ FrameDiscarded
  /\ PingAfterOtherFrame
     => /\ Len(ev.sends) = 1
        /\ ev.sends[1].conn = ev.conn
        /\ ev.sends[1].data = PongFrame
        /\ ~ev.sends[1].threw => sent[ev.conn][Len(sent[ev.conn])] = PongFrame
        /\ readyState[ev.conn] = OPEN
        /\ clients = ev.before

\* a ping answered on a handle after a frame of it was discarded, while a
\* text that is not JSON has been discarded on another handle
C18_Witness ==
  /\ PingAfterOtherFrame
  /\ sent[ev.conn] = <<WelcomeFrame, PongFrame>>
  /\ \E c \in Handles : c # ev.conn /\ c \in ignored /\ readyState[c] = OPEN

\* the last callback was a listener of an admitted handle that ran
\* clients.delete
DeleteRan == ev.op \in {"close", "error"} /\ handlers[ev.conn]

\* C19: clients.delete of a userId that is not a key leaves the registry as
\* it was; so does the second of two in a row: the close listener of a handle
\* whose error listener has run, with the userId not registered again in
\* between.  After every clients.delete the userId is not a key, every other
\* entry is as before, and one more clients.delete of it would change nothing.
C19_DeleteIdempotent ==
  DeleteRan
  => /\ ~HasKey(ev.before, connUserId[ev.conn]) => clients = ev.before
     /\ ~HasKey(clients, connUserId[ev.conn])
     /\ \A i \in 1..Len(ev.before) :
          ev.before[i][1] # connUserId[ev.conn]
          => Registered(clients, ev.before[i][1], ev.before[i][2])
     /\ Len(clients) =
          Len(ev.before) - (IF HasKey(ev.before, connUserId[ev.conn]) THEN 1 ELSE 0)
     /\ MapDelete(clients, connUserId[ev.conn]) = clients

\* the close listener of a handle has run after its error listener, the
\* userId not a key in between, while another userId is registered
C19_Witness ==
  /\ DeleteRan
  /\ ev.op = "close"
  /\ errored[ev.conn]
  /\ ~HasKey(ev.before, connUserId[ev.conn])
  /\ Len(ev.before) = 1
  /\ clients = ev.before

\* C20: a push that names a teacherId and has a message field, whatever its
\* value (0, false, "" and null included), is not answered 400
\* MissingParameter.
C20_OpaqueMessage ==
  (PushTo /\ ev.message # Undefined)
  => \A i \in 1..Len(ev.responses) :
       /\ ev.responses[i].status # 400
       /\ ev.responses[i].body # MissingParameterBody

====
